---- MODULE Spec2Model ----
(***************************************************************************)
(* Model of brennaman/voice-to-obsidian.                                   *)
(*                                                                         *)
(*   voice-to-obsidian.py                 quota record, daily notes and    *)
(*                                        the clipboard loop               *)
(*   .github/scripts/ai_developer.py      parse_claude_response            *)
(*   .github/scripts/linear_webhook_handler.py, trigger_workflow.py        *)
(*                                        signature check and dispatch     *)
(*                                                                         *)
(* Five specifications share the variables below:                          *)
(*   Spec       the clipboard loop of main()                               *)
(*   SpecQuota  check_daily_limit / increment_daily_count called directly  *)
(*              on arbitrary contents of the quota file                    *)
(*   SpecNote   save_to_obsidian called directly                           *)
(*   SpecParse  parse_claude_response applied to bounded responses         *)
(*   SpecHook   linear_webhook and trigger_workflow                        *)
(***************************************************************************)
EXTENDS Integers, Sequences, FiniteSets, TLC

VARIABLES
    today,                  \* calendar date datetime.now() reports (a day number)
    time,                   \* time of day datetime.now() reports
    record,                 \* the file daily_count_file
    notes,                  \* the files <vault>/<date>.md, by date
    clipboard,              \* the OS clipboard
    last_clipboard_content, \* the global of that name
    current_clipboard,      \* main's local of that name
    formatted,              \* main's local of that name
    pc,                     \* position of main's loop
    sentCur,                \* formatter calls made for the value now on the clipboard
    fresh,                  \* current_clipboard was read since the clipboard last changed
    saves,                  \* log of the save_to_obsidian calls made, by date
    qop,                    \* last quota operation called: name, date, file before, result
    response_text,          \* argument of parse_claude_response
    files,                  \* its return value
    parsed,                 \* whether parse_claude_response has returned
    env,                    \* environment of the webhook handler / CLI trigger
    hook                    \* last request handled and what was done with it

vars == << today, time, record, notes, clipboard, last_clipboard_content,
           current_clipboard, formatted, pc, sentCur, fresh, saves, qop,
           response_text, files, parsed, env, hook >>

loopVars  == << clipboard, last_clipboard_content, current_clipboard, formatted, pc,
               sentCur, fresh >>
parseVars == << response_text, files, parsed >>
hookVars  == << env, hook >>

(***************************************************************************)
(* Bounds of the model.                                                    *)
(***************************************************************************)
\* Calendar dates are 0..MaxDay; the date never moves backwards.
MaxDay == 1
\* The cap on notes per day.  The source sets 100 (voice-to-obsidian.py:23);
\* the model scales it down so that the cap is reached and passed within
\* the explored runs.  No definition depends on its value other than
\* through the comparison in check_daily_limit.
DAILY_LIMIT == 2
\* Times of day are 0..MaxTime.
MaxTime == 1
\* save_to_obsidian calls explored by SpecNote.
MaxSaves == 3
\* Largest count found in a quota file at start-up (SpecQuota).
MaxCount == 3
\* Lines of a response given to parse_claude_response (SpecParse).
MaxLines == 5

(***************************************************************************)
(* Program constants.                                                      *)
(***************************************************************************)
MIN_WORDS == 5
MAX_CHARS == 5000

Days == 0..MaxDay

Min(a, b) == IF a < b THEN a ELSE b

(***************************************************************************)
(* The quota file.  Its text is split on ',' by the readers, so the model  *)
(* keeps the list of comma-separated fields.  A field is                   *)
(*   date d   the text strftime("%Y-%m-%d") gives for day d                *)
(*   num n    the decimal numeral str(n)                                   *)
(*   pad n    another numeral int() accepts for n ("07", "+7")             *)
(*   junk     text int() rejects ("abc")                                   *)
(*   empty    the empty string, which int() rejects too                    *)
(***************************************************************************)
DateF(d) == [k |-> "date", v |-> d]
NumF(n)  == [k |-> "num",  v |-> n]
PadF(n)  == [k |-> "pad",  v |-> n]
JunkF    == [k |-> "junk", v |-> 0]
EmptyF   == [k |-> "empty", v |-> 0]

Absent == [exists |-> FALSE, data |-> << >>]
FileOf(fields) == [exists |-> TRUE, data |-> fields]

\* int(s): the value, for the strings int() accepts
IntOk(f) == f.k \in {"num", "pad"}
IntOf(f) == f.v

\* f"{today},{count}" written with open(..., 'w')
WriteCount(day, count) == FileOf(<< DateF(day), NumF(count) >>)

\* the record is `<day>,<anything>`
DatedToday(rec, day) ==
    /\ rec.exists
    /\ Len(rec.data) = 2
    /\ rec.data[1] = DateF(day)

\* check_daily_limit, called on date `day` with the file holding `rec`:
\* the return value ("raise" for the ValueError of int()) and the file after.
check_daily_limit_bad(rec, day) ==
    IF DatedToday(rec, day)
    THEN IF IntOk(rec.data[2])
         THEN [ret  |-> IF IntOf(rec.data[2]) <= DAILY_LIMIT THEN "True" ELSE "False",
               file |-> rec]
         ELSE [ret |-> "raise", file |-> rec]
    ELSE [ret |-> "True", file |-> WriteCount(day, 0)]

check_daily_limit_keep(rec, day) ==
    IF DatedToday(rec, day)
    THEN IF IntOk(rec.data[2])
         THEN [ret  |-> IF IntOf(rec.data[2]) < DAILY_LIMIT THEN "True" ELSE "False",
               file |-> rec]
         ELSE [ret |-> "raise", file |-> rec]
    ELSE [ret |-> "True", file |-> rec]

check_daily_limit(rec, day) ==
    IF DatedToday(rec, day)
    THEN IF IntOk(rec.data[2])
         THEN [ret  |-> IF IntOf(rec.data[2]) < DAILY_LIMIT THEN "True" ELSE "False",
               file |-> rec]
         ELSE [ret |-> "raise", file |-> rec]
    ELSE [ret |-> "True", file |-> WriteCount(day, 0)]

\* increment_daily_count, likewise (it returns None)
increment_daily_count(rec, day) ==
    IF DatedToday(rec, day)
    THEN IF IntOk(rec.data[2])
         THEN [ret |-> "None", file |-> WriteCount(day, IntOf(rec.data[2]) + 1)]
         ELSE [ret |-> "raise", file |-> rec]
    ELSE [ret |-> "None", file |-> WriteCount(day, 1)]

(***************************************************************************)
(* Daily notes.  A note file is the list of the pieces written to it: the  *)
(* top-level heading "# <date>" and the sections "## <time>\n\n<note>".    *)
(***************************************************************************)
NoNote == [exists |-> FALSE, body |-> << >>]
Heading(d)    == [k |-> "h1", at |-> d, text |-> [k |-> "str", src |-> 0, len |-> 0]]
Section(t, n) == [k |-> "h2", at |-> t, text |-> n]

\* save_to_obsidian(formatted_note) called at date `day`, time `t`
save_to_obsidian_rewrite(nt, day, t, note) ==
    [nt EXCEPT ![day] = [exists |-> TRUE,
                         body |-> << Heading(day), Section(t, note) >>]]

save_to_obsidian(nt, day, t, note) ==
    IF nt[day].exists
    THEN [nt EXCEPT ![day].body = Append(@, Section(t, note))]
    ELSE [nt EXCEPT ![day] = [exists |-> TRUE,
                              body |-> << Heading(day), Section(t, note) >>]]

Sections(file) == SelectSeq(file.body, LAMBDA p : p.k = "h2")
Headings(file) == SelectSeq(file.body, LAMBDA p : p.k = "h1")

(***************************************************************************)
(* Texts.  A clipboard text is known by its length in characters and its   *)
(* number of whitespace-separated words; a completion by the text it was   *)
(* made from.                                                              *)
(***************************************************************************)
Short     == [id |-> 1, len |-> 12,   words |-> 2]
Dictation == [id |-> 2, len |-> 60,   words |-> 11]
Long      == [id |-> 3, len |-> 6000, words |-> 1000]
Texts == {Short, Dictation, Long}

\* is_valid_transcription(text)
is_valid_transcription(text) ==
    IF text.len = 0 \/ text.len < 10
    THEN FALSE
    ELSE IF text.words < MIN_WORDS
         THEN FALSE
         ELSE TRUE

\* current_clipboard[:MAX_CHARS]
Truncate(text) == [text EXCEPT !.len = Min(text.len, MAX_CHARS)]

\* what format_with_claude can return for a text: None after an API error,
\* or the completion, which may be the empty string
NoneV == [k |-> "None", src |-> 0, len |-> 0]
Completion(src, len) == [k |-> "str", src |-> src, len |-> len]
format_with_claude(text) ==
    {NoneV, Completion(0, 0), Completion(text.id, text.len)}

\* `if formatted:`
Truthy(f) == f.k = "str" /\ f.len > 0

(***************************************************************************)
(* main(): the loop `while True` of voice-to-obsidian.py:167-199.          *)
(* pc is the statement about to run:                                       *)
(*   poll         168  current_clipboard = get_clipboard()                 *)
(*   check        174  check_daily_limit()                                 *)
(*   sleep_limit  176  time.sleep(3600); continue                          *)
(*   format       186  format_with_claude(text_to_process)                 *)
(*   save         190  save_to_obsidian(formatted)                         *)
(*   incr         191  increment_daily_count()                             *)
(*   update       197  last_clipboard_content = current_clipboard          *)
(*   crashed           an exception left main()                            *)
(***************************************************************************)
\* lines 171-172
after_poll(cur, last) ==
    IF cur # last
    THEN IF is_valid_transcription(cur) THEN "check" ELSE "update"
    ELSE "poll"

\* lines 174-177
after_check(ret) ==
    IF ret = "raise" THEN "crashed"
    ELSE IF ret = "False" THEN "sleep_limit" ELSE "format"

\* lines 188-194
after_format(f) == IF Truthy(f) THEN "save" ELSE "update"

\* line 197
last_seen_on_success(last, cur, f) == IF Truthy(f) THEN cur ELSE last

last_seen(last, cur, f) == cur

Poll ==
    /\ pc = "poll"
    /\ current_clipboard' = clipboard
    /\ fresh' = TRUE
    /\ pc' = after_poll(clipboard, last_clipboard_content)
    /\ UNCHANGED << today, time, record, notes, clipboard, last_clipboard_content,
                    formatted, sentCur, saves, qop >>
    /\ UNCHANGED << parseVars, hookVars >>

Check ==
    /\ pc = "check"
    /\ LET r == check_daily_limit(record, today)
       IN /\ record' = r.file
          /\ pc' = after_check(r.ret)
    /\ UNCHANGED << today, time, notes, clipboard, last_clipboard_content,
                    current_clipboard, formatted, sentCur, fresh, saves, qop >>
    /\ UNCHANGED << parseVars, hookVars >>

SleepLimit ==
    /\ pc = "sleep_limit"
    /\ pc' = "poll"
    /\ UNCHANGED << today, time, record, notes, clipboard, last_clipboard_content,
                    current_clipboard, formatted, sentCur, fresh, saves, qop >>
    /\ UNCHANGED << parseVars, hookVars >>

Format ==
    /\ pc = "format"
    /\ \E f \in format_with_claude(Truncate(current_clipboard)) :
          /\ formatted' = f
          /\ pc' = after_format(f)
    /\ sentCur' = IF fresh THEN sentCur + 1 ELSE sentCur
    /\ UNCHANGED << today, time, record, notes, clipboard, last_clipboard_content,
                    current_clipboard, fresh, saves, qop >>
    /\ UNCHANGED << parseVars, hookVars >>

Save ==
    /\ pc = "save"
    /\ notes' = save_to_obsidian(notes, today, time, formatted)
    /\ saves' = [saves EXCEPT ![today] = Append(@, [at |-> time, text |-> formatted])]
    /\ pc' = "incr"
    /\ UNCHANGED << today, time, record, clipboard, last_clipboard_content,
                    current_clipboard, formatted, sentCur, fresh, qop >>
    /\ UNCHANGED << parseVars, hookVars >>

Incr ==
    /\ pc = "incr"
    /\ LET r == increment_daily_count(record, today)
       IN /\ record' = r.file
          /\ pc' = IF r.ret = "raise" THEN "crashed" ELSE "update"
    /\ UNCHANGED << today, time, notes, clipboard, last_clipboard_content,
                    current_clipboard, formatted, sentCur, fresh, saves, qop >>
    /\ UNCHANGED << parseVars, hookVars >>

Update ==
    /\ pc = "update"
    /\ last_clipboard_content' = last_seen(last_clipboard_content, current_clipboard, formatted)
    /\ pc' = "poll"
    /\ UNCHANGED << today, time, record, notes, clipboard, current_clipboard,
                    formatted, sentCur, fresh, saves, qop >>
    /\ UNCHANGED << parseVars, hookVars >>

\* the user (or SuperWhisper) puts another text on the clipboard
ClipboardChange ==
    /\ pc # "crashed"
    /\ \E t \in Texts \ {clipboard} : clipboard' = t
    /\ sentCur' = 0
    /\ fresh' = FALSE
    /\ UNCHANGED << today, time, record, notes, last_clipboard_content,
                    current_clipboard, formatted, pc, saves, qop >>
    /\ UNCHANGED << parseVars, hookVars >>

\* midnight passes
DayChange ==
    /\ pc # "crashed"
    /\ today < MaxDay
    /\ today' = today + 1
    /\ time' = 0
    /\ UNCHANGED << record, notes, loopVars, saves, qop >>
    /\ UNCHANGED << parseVars, hookVars >>

NoOp == [op |-> "none", day |-> 0, before |-> Absent, ret |-> "None", n |-> -1]

QuietParse == /\ response_text = << << >> >>
              /\ files = {}
              /\ parsed = FALSE
QuietHook  == /\ env = 0
              /\ hook = 0
QuietLoop  == /\ clipboard = Short
              /\ last_clipboard_content = Short
              /\ current_clipboard = Short
              /\ formatted = NoneV
              /\ pc = "poll"
              /\ sentCur = 0
              /\ fresh = FALSE

\* main() up to line 164, in a vault that holds no quota file and no note
Init ==
    /\ today = 0
    /\ time = 0
    /\ record = Absent
    /\ notes = [d \in Days |-> NoNote]
    /\ saves = [d \in Days |-> << >>]
    /\ clipboard \in Texts
    /\ last_clipboard_content = clipboard
    /\ current_clipboard = clipboard
    /\ formatted = NoneV
    /\ pc = "poll"
    /\ sentCur = 0
    /\ fresh = FALSE
    /\ qop = NoOp
    /\ QuietParse
    /\ QuietHook

Next ==
    \/ Poll
    \/ Check
    \/ SleepLimit
    \/ Format
    \/ Save
    \/ Incr
    \/ Update
    \/ ClipboardChange
    \/ DayChange

Spec == Init /\ [][Next]_vars

(***************************************************************************)
(* SpecQuota: check_daily_limit and increment_daily_count called on any    *)
(* date, starting from any content of the quota file.  qop records the     *)
(* last call; qop.n counts the increments made in a row on one date since  *)
(* the file was absent or held `<date>,0` (-1: no such run is under way).  *)
(***************************************************************************)
Counts == 0..MaxCount

QuotaFiles ==
    {Absent, FileOf(<< EmptyF >>), FileOf(<< JunkF >>), FileOf(<< JunkF, NumF(1) >>)}
    \cup {FileOf(<< DateF(d), f >>) :
             d \in Days,
             f \in {NumF(n) : n \in Counts} \cup {PadF(n) : n \in Counts}
                      \cup {JunkF, EmptyF}}
    \cup {FileOf(<< DateF(d), NumF(1), NumF(2) >>) : d \in Days}

\* the file holds `<day>,<integer>`
IsRecord(rec, day) == DatedToday(rec, day) /\ IntOk(rec.data[2])
\* the file holds `<other date>,<anything>`
Stale(rec, day) ==
    /\ rec.exists
    /\ Len(rec.data) = 2
    /\ rec.data[1].k = "date"
    /\ rec.data[1].v # day

RunStart(rec, day) == ~rec.exists \/ (IsRecord(rec, day) /\ IntOf(rec.data[2]) = 0)

QCheck ==
    /\ LET r == check_daily_limit(record, today)
       IN /\ record' = r.file
          /\ qop' = [op |-> "check", day |-> today, before |-> record,
                     ret |-> r.ret, n |-> -1]
    /\ UNCHANGED << today, time, notes, saves, loopVars, parseVars, hookVars >>

QIncrement ==
    /\ IsRecord(record, today) => IntOf(record.data[2]) <= MaxCount
    /\ LET r == increment_daily_count(record, today)
           base == IF RunStart(record, today) THEN 0 ELSE qop.n
       IN /\ record' = r.file
          /\ qop' = [op |-> "increment", day |-> today, before |-> record,
                     ret |-> r.ret,
                     n |-> IF base >= 0 /\ r.ret # "raise" THEN base + 1 ELSE -1]
    /\ UNCHANGED << today, time, notes, saves, loopVars, parseVars, hookVars >>

QDayChange ==
    /\ today < MaxDay
    /\ today' = today + 1
    /\ qop' = [qop EXCEPT !.n = -1]
    /\ UNCHANGED << time, record, notes, saves, loopVars, parseVars, hookVars >>

InitQuota ==
    /\ today \in Days
    /\ time = 0
    /\ record \in QuotaFiles
    /\ notes = [d \in Days |-> NoNote]
    /\ saves = [d \in Days |-> << >>]
    /\ qop = NoOp
    /\ QuietLoop
    /\ QuietParse
    /\ QuietHook

NextQuota == QCheck \/ QIncrement \/ QDayChange

SpecQuota == InitQuota /\ [][NextQuota]_vars

(***************************************************************************)
(* SpecNote: save_to_obsidian called with any note at any time.            *)
(***************************************************************************)
NoteTexts == {Completion(1, 20), Completion(2, 30)}

TotalSaves == LET RECURSIVE Sum(_)
                  Sum(d) == IF d < 0 THEN 0 ELSE Len(saves[d]) + Sum(d - 1)
              IN Sum(MaxDay)

NSave ==
    /\ TotalSaves < MaxSaves
    /\ \E note \in NoteTexts :
          /\ notes' = save_to_obsidian(notes, today, time, note)
          /\ saves' = [saves EXCEPT ![today] = Append(@, [at |-> time, text |-> note])]
    /\ UNCHANGED << today, time, record, qop, loopVars, parseVars, hookVars >>

NTick ==
    /\ time < MaxTime
    /\ time' = time + 1
    /\ UNCHANGED << today, record, notes, saves, qop, loopVars, parseVars, hookVars >>

NDayChange ==
    /\ today < MaxDay
    /\ today' = today + 1
    /\ time' = 0
    /\ UNCHANGED << record, notes, saves, qop, loopVars, parseVars, hookVars >>

InitNote ==
    /\ today = 0
    /\ time = 0
    /\ record = Absent
    /\ notes = [d \in Days |-> NoNote]
    /\ saves = [d \in Days |-> << >>]
    /\ qop = NoOp
    /\ QuietLoop
    /\ QuietParse
    /\ QuietHook

NextNote == NSave \/ NTick \/ NDayChange

SpecNote == InitNote /\ [][NextNote]_vars

(***************************************************************************)
(* Claims about the quota record.                                          *)
(***************************************************************************)
\* C1 (as stated): increment_daily_count called on day d rewrites the quota
\* file to (d, c+1) when it held (d, c) and to (d, 1) when it was absent,
\* malformed or dated differently; so n increments in a row on day d,
\* starting from an absent file or from (d, 0), leave (d, n).
C1_IncrementRewrites ==
    qop.op = "increment" =>
        /\ record = IF IsRecord(qop.before, qop.day)
                    THEN WriteCount(qop.day, IntOf(qop.before.data[2]) + 1)
                    ELSE WriteCount(qop.day, 1)
        /\ qop.n >= 1 => record = WriteCount(today, qop.n)

\* What the code does with the files C1 is about, the ones it can read:
\* every increment that returns rewrites the file as C1 says, and the file
\* `<d>,<text int() rejects>` makes it raise ValueError, the file untouched.
IncrementObserved ==
    qop.op = "increment" =>
        IF DatedToday(qop.before, qop.day) /\ ~IntOk(qop.before.data[2])
        THEN qop.ret = "raise" /\ record = qop.before
        ELSE /\ qop.ret = "None"
             /\ record = IF IsRecord(qop.before, qop.day)
                         THEN WriteCount(qop.day, IntOf(qop.before.data[2]) + 1)
                         ELSE WriteCount(qop.day, 1)
             /\ qop.n >= 1 => record = WriteCount(today, qop.n)

\* C2 (as stated): check_daily_limit performed on day d while the file
\* carries another date leaves the file as it was.
C2_CheckLeavesStaleRecord ==
    (qop.op = "check" /\ Stale(qop.before, qop.day)) => record = qop.before

\* C2 (amended): check_daily_limit performed on day d while the file carries
\* another date rewrites the file to (d, 0) itself and returns True; it
\* leaves the file as it was only when the file is already dated d.
C2_CheckResetsStaleRecord ==
    qop.op = "check" =>
        /\ Stale(qop.before, qop.day) =>
              record = WriteCount(qop.day, 0) /\ qop.ret = "True"
        /\ record = qop.before => DatedToday(qop.before, qop.day)
        /\ DatedToday(qop.before, qop.day) => record = qop.before

C2_Witness ==
    /\ qop.op = "check"
    /\ Stale(qop.before, qop.day)
    /\ qop.before.data[2] = NumF(MaxCount)
    /\ record = WriteCount(qop.day, 0)

(***************************************************************************)
(* Claims about the daily note.                                            *)
(***************************************************************************)
SectionsOf(log) == [i \in 1..Len(log) |-> Section(log[i].at, log[i].text)]

\* C5: after any sequence of save_to_obsidian calls, the note of a date is
\* one file holding exactly one top-level date heading, first, followed by
\* one time-stamped section per call made on that date, in call order (so
\* each call appended to what the file held, B after A); a date on which
\* no call was made has no file.
C5_NoteIsHeadingThenSections ==
    \A d \in Days :
        IF saves[d] = << >>
        THEN ~notes[d].exists
        ELSE /\ notes[d].exists
             /\ notes[d].body = << Heading(d) >> \o SectionsOf(saves[d])
             /\ Len(Headings(notes[d])) = 1

C5_Witness ==
    /\ Len(saves[0]) >= 2
    /\ saves[0][1].text # saves[0][2].text
    /\ notes[0].body[3] = Section(saves[0][2].at, saves[0][2].text)

(***************************************************************************)
(* Claims about the clipboard loop.                                        *)
(***************************************************************************)
AtCap(rec, day) == IsRecord(rec, day) /\ IntOf(rec.data[2]) >= DAILY_LIMIT

CapInvariant ==
    /\ IsRecord(record, today) => IntOf(record.data[2]) <= DAILY_LIMIT
    /\ \A d \in Days : Len(Sections(notes[d])) <= DAILY_LIMIT

\* the iteration whose check_daily_limit finds the cap reached goes to the
\* hour's sleep, and from there back to polling, with nothing formatted,
\* saved or counted
CapStep ==
    /\ (pc = "check" /\ pc' # "check" /\ AtCap(record, today)) =>
          (pc' = "sleep_limit" /\ record' = record)
    /\ pc = "sleep_limit" =>
          /\ pc' \in {"sleep_limit", "poll"}
          /\ notes' = notes
          /\ record' = record
          /\ sentCur' <= sentCur
    /\ pc' = "sleep_limit" => pc = "sleep_limit" \/ AtCap(record, today)

\* C8: in the clipboard loop, whatever the clipboard, the formatter and the
\* calendar do between any two steps, a quota record dated today never
\* counts more than DAILY_LIMIT, no date's note receives more than
\* DAILY_LIMIT sections, and an iteration whose check_daily_limit returns
\* false formats, saves and counts nothing.
C8_DailyCapNeverExceeded == [](CapInvariant) /\ [][CapStep]_vars

C8_Witness ==
    /\ pc = "sleep_limit"
    /\ today > 0
    /\ record = WriteCount(today, DAILY_LIMIT)
    /\ Len(Sections(notes[today])) = DAILY_LIMIT
    /\ Len(Sections(notes[0])) > 0

\* C9: a value put on the clipboard is sent to the formatter at most once
\* while it stays there; once sent, success or failure, it is the last-seen
\* value at the next poll; and saving and counting are reached only with a
\* completion in hand, so a formatter failure changes neither note nor
\* quota file and is not retried.
C9_SentAtMostOnce ==
    /\ sentCur <= 1
    /\ (pc = "poll" /\ sentCur = 1) => last_clipboard_content = clipboard
    /\ pc \in {"save", "incr"} => Truthy(formatted)
    /\ (pc = "update" /\ sentCur = 1 /\ ~Truthy(formatted)) =>
          \A d \in Days : Len(Sections(notes[d])) = Len(saves[d])

C9_Witness ==
    /\ pc = "poll"
    /\ sentCur = 1
    /\ formatted = NoneV
    /\ last_clipboard_content = clipboard
    /\ record = WriteCount(0, 0)
    /\ ~notes[0].exists

(***************************************************************************)
(* parse_claude_response (ai_developer.py:87-117).                         *)
(*                                                                         *)
(* A text is the list of its lines, as split('\n') gives them, and a line  *)
(* is a list of tokens:                                                    *)
(*   "FILE"  the characters `=== FILE:`                                    *)
(*   "END"   the characters `=== END FILE`                                 *)
(*   "EQ"    the characters `===`                                          *)
(*   "SP"    one blank                                                     *)
(*   other   a word without blanks, markers or '='                         *)
(* so `=== FILE: a ===` is << "FILE", "SP", "a", "SP", "EQ" >>.  The empty *)
(* text is the one empty line << << >> >>.                                 *)
(***************************************************************************)
StartA    == << "FILE", "SP", "a", "SP", "EQ" >>   \* === FILE: a ===
StartB    == << "FILE", "SP", "b", "SP", "EQ" >>   \* === FILE: b ===
StartBare == << "FILE" >>                          \* === FILE:
EndLine   == << "END", "SP", "EQ" >>               \* === END FILE ===
WordLine  == << "x" >>
PadLine   == << "SP", "x", "SP" >>
BlankLine == << "SP" >>
EmptyText == << << >> >>

Lines == {StartA, StartB, StartBare, EndLine, WordLine, PadLine, BlankLine}

RECURSIVE SeqsUpTo(_, _)
SeqsUpTo(S, n) ==
    IF n = 0 THEN {<< >>}
    ELSE LET shorter == SeqsUpTo(S, n - 1)
         IN shorter \cup {Append(q, x) : q \in shorter, x \in S}

Responses == {EmptyText} \cup (SeqsUpTo(Lines, MaxLines) \ {<< >>})

\* line.startswith('=== FILE:'), line.startswith('=== END FILE')
StartsWithFile(line) == Len(line) >= 1 /\ line[1] = "FILE"
StartsWithEnd(line)  == Len(line) >= 1 /\ line[1] = "END"

\* s.strip() of one line: blanks dropped at both ends
RECURSIVE LStrip(_)
LStrip(line) ==
    IF line # << >> /\ Head(line) = "SP" THEN LStrip(Tail(line)) ELSE line
RECURSIVE RStrip(_)
RStrip(line) ==
    IF line # << >> /\ line[Len(line)] = "SP"
    THEN RStrip(SubSeq(line, 1, Len(line) - 1))
    ELSE line
StripLine(line) == RStrip(LStrip(line))

IsBlank(line) == \A i \in 1..Len(line) : line[i] = "SP"

\* s.strip() of a text: blanks and newlines dropped at both ends
RECURSIVE LStripText(_)
LStripText(text) ==
    IF text = << >> THEN << >>
    ELSE IF IsBlank(Head(text)) THEN LStripText(Tail(text))
    ELSE << LStrip(Head(text)) >> \o Tail(text)
RECURSIVE RStripText(_)
RStripText(text) ==
    IF text = << >> THEN << >>
    ELSE IF IsBlank(text[Len(text)]) THEN RStripText(SubSeq(text, 1, Len(text) - 1))
    ELSE SubSeq(text, 1, Len(text) - 1) \o << RStrip(text[Len(text)]) >>
StripText(text) ==
    LET t == RStripText(LStripText(text))
    IN IF t = << >> THEN EmptyText ELSE t

\* '\n'.join(lines)
Join(lines) == IF lines = << >> THEN EmptyText ELSE lines

\* line.replace('=== FILE:', '').strip()
filename(line) == StripLine(SelectSeq(line, LAMBDA t : t # "FILE"))

\* files[name] = content
Put(fs, name, content) ==
    {e \in fs : e[1] # name} \cup {<< name, content >>}

\* the locals before the loop, lines 89-94; current_file is << >> for None
\* and for '', which the code tells apart nowhere
ScanStart == [files |-> {}, current_file |-> << >>, current_content |-> << >>,
              in_file |-> FALSE]

\* one pass of the loop body, lines 97-110
scan_line_flush(st, line) ==
    IF StartsWithFile(line)
    THEN [files |-> IF st.current_file # << >>
                    THEN Put(st.files, st.current_file, Join(st.current_content))
                    ELSE st.files,
          current_file |-> filename(line), current_content |-> << >>, in_file |-> TRUE]
    ELSE IF StartsWithEnd(line)
    THEN IF st.current_file # << >>
         THEN [files |-> Put(st.files, st.current_file, Join(st.current_content)),
               current_file |-> << >>, current_content |-> << >>, in_file |-> FALSE]
         ELSE [st EXCEPT !.in_file = FALSE]
    ELSE IF st.in_file
    THEN [st EXCEPT !.current_content = Append(@, line)]
    ELSE st

scan_line(st, line) ==
    IF StartsWithFile(line)
    THEN [st EXCEPT !.current_file = filename(line),
                    !.current_content = << >>,
                    !.in_file = TRUE]
    ELSE IF StartsWithEnd(line)
    THEN IF st.current_file # << >>
         THEN [files |-> Put(st.files, st.current_file, Join(st.current_content)),
               current_file |-> << >>, current_content |-> << >>, in_file |-> FALSE]
         ELSE [st EXCEPT !.in_file = FALSE]
    ELSE IF st.in_file
    THEN [st EXCEPT !.current_content = Append(@, line)]
    ELSE st

RECURSIVE Scan(_, _)
Scan(st, lines) ==
    IF lines = << >> THEN st ELSE Scan(scan_line(st, Head(lines)), Tail(lines))

DefaultFile == << "voice_to_obsidian.py" >>

\* lines 113-115
fallback_unstripped(fs, text) ==
    IF fs = {} /\ text # EmptyText
    THEN {<< DefaultFile, text >>}
    ELSE fs

fallback(fs, text) ==
    IF fs = {} /\ StripText(text) # EmptyText
    THEN {<< DefaultFile, StripText(text) >>}
    ELSE fs

parse_claude_response(text) == fallback(Scan(ScanStart, text).files, text)

Parse ==
    /\ ~parsed
    /\ files' = parse_claude_response(response_text)
    /\ parsed' = TRUE
    /\ UNCHANGED << today, time, record, notes, saves, qop, loopVars,
                    response_text, hookVars >>

InitParse ==
    /\ today = 0
    /\ time = 0
    /\ record = Absent
    /\ notes = [d \in Days |-> NoNote]
    /\ saves = [d \in Days |-> << >>]
    /\ qop = NoOp
    /\ QuietLoop
    /\ response_text \in Responses
    /\ files = {}
    /\ parsed = FALSE
    /\ QuietHook

NextParse == Parse

SpecParse == InitParse /\ [][NextParse]_vars

(***************************************************************************)
(* Claims about parse_claude_response.                                     *)
(***************************************************************************)
IsMarker(line) == StartsWithFile(line) \/ StartsWithEnd(line)

\* a start line, an end line after it, no marker line in between
ClosedBlocks(text) ==
    {b \in (1..Len(text)) \X (1..Len(text)) :
        /\ b[1] < b[2]
        /\ StartsWithFile(text[b[1]])
        /\ StartsWithEnd(text[b[2]])
        /\ \A k \in (b[1] + 1)..(b[2] - 1) : ~IsMarker(text[k])}

BlockContent(text, b) == Join(SubSeq(text, b[1] + 1, b[2] - 1))

\* the mapping that gives each name the content of the last of `blocks`
\* opened under it, Name(line) being the name a start line gives
LastWins(text, blocks, Name(_)) ==
    {<< Name(text[b[1]]), BlockContent(text, b) >> :
        b \in {b \in blocks :
                 \A c \in blocks :
                    Name(text[c[1]]) = Name(text[b[1]]) => c[1] <= b[1]}}

\* `=== FILE: <name> ===`, and the <name> in it
IsFileLine(line) ==
    /\ Len(line) >= 5
    /\ line[1] = "FILE" /\ line[2] = "SP"
    /\ line[Len(line) - 1] = "SP" /\ line[Len(line)] = "EQ"
NameIn(line) == SubSeq(line, 3, Len(line) - 2)

\* C3 (as stated): the keys are the names of the blocks opened by a line
\* `=== FILE: <name> ===` and closed by a line `=== END FILE`, each mapped
\* to the newline-joined lines of the last closed block of that name; lines
\* outside blocks and end markers without an open block add nothing.
\* (Stated for the responses whose start lines all have that form and that
\* hold a closed block.)
C3_KeysAreBlockNames ==
    (/\ parsed
     /\ \A i \in 1..Len(response_text) :
           StartsWithFile(response_text[i]) => IsFileLine(response_text[i])
     /\ ClosedBlocks(response_text) # {})
    => files = LastWins(response_text, ClosedBlocks(response_text), NameIn)

NoMarkers(text) == \A i \in 1..Len(text) : ~IsMarker(text[i])
AllBlank(text)  == \A i \in 1..Len(text) : IsBlank(text[i])

\* C4 (as stated): a non-empty response without marker lines yields exactly
\* one entry, the default file, whose content is the entire response text.
C4_WholeTextToDefaultFile ==
    (parsed /\ response_text # EmptyText /\ NoMarkers(response_text))
    => files = {<< DefaultFile, response_text >>}

\* C4 (amended): a response without marker lines that is not all whitespace
\* yields exactly one entry, the default file, whose content is the
\* response with the whitespace at both ends stripped; a response that is
\* all whitespace yields no entry.
C4_StrippedTextToDefaultFile ==
    (parsed /\ NoMarkers(response_text))
    => IF AllBlank(response_text)
       THEN files = {}
       ELSE files = {<< DefaultFile, StripText(response_text) >>}

C4_Witness ==
    /\ parsed
    /\ response_text = << BlankLine, PadLine, WordLine, BlankLine >>
    /\ files = {<< DefaultFile, << << "x", "SP" >>, << "x" >> >> >>}

\* the blocks the scan commits: closed, under a non-empty name
Committed(text) == {b \in ClosedBlocks(text) : filename(text[b[1]]) # << >>}

\* C10: a block is committed only by its end marker, so a block still open
\* at the end of the response or cut short by another start marker adds no
\* entry; and whenever no block was committed and the response is not all
\* whitespace the result is the single default file holding the whole
\* stripped response, marker lines included.
C10_CommitOnlyAtEndMarker ==
    parsed =>
        IF Committed(response_text) = {}
        THEN IF AllBlank(response_text)
             THEN files = {}
             ELSE files = {<< DefaultFile, StripText(response_text) >>}
        ELSE files = LastWins(response_text, Committed(response_text), filename)

C10_Witness ==
    /\ parsed
    /\ response_text = << StartA, WordLine, StartB, PadLine >>
    /\ files = {<< DefaultFile, << StartA, WordLine, StartB, << "SP", "x" >> >> >>}

(***************************************************************************)
(* linear_webhook_handler.py and trigger_workflow.py.                      *)
(*                                                                         *)
(* An optional string (os.environ.get, request.headers.get) is None or a   *)
(* string; hexdigests are modelled by an ideal hash: the digest of a body  *)
(* under a key is the pair of them, and differs from every other digest.   *)
(***************************************************************************)
None      == [some |-> FALSE, v |-> << >>]
Some(x)   == [some |-> TRUE,  v |-> x]
\* `if x:` for an optional string
Set(x)    == x.some /\ x.v # << >>

\* hmac.new(secret.encode(), payload, hashlib.sha256).hexdigest()
Hmac(secret, payload) == << "hmac", secret, payload >>

TARGET_LABEL == "ai-development"

Secrets == {None, Some(<< >>), Some(<< "k1" >>)}
Tokens  == {None, Some(<< "ghp" >>)}
Bodies  == [id : {1},
            type : {"Issue", "Comment"},
            action : {"update", "create"},
            labels : {{"bug"}, {"bug", TARGET_LABEL}}]
\* bodies somebody holding a key has signed
SignedBodies == {b \in Bodies : b.type = "Issue" /\ b.action = "update"}
Signatures ==
    {None, Some(<< >>)}
    \cup {Some(Hmac(k, b)) : k \in {<< "k1" >>, << "k2" >>}, b \in SignedBodies}
\* what requests.post gives: a response with a status code, or an exception
Remotes == {[raised |-> FALSE, status_code |-> c] : c \in {200, 204, 404, 500}}
           \cup {[raised |-> TRUE, status_code |-> 0]}

\* verify_linear_signature(payload, signature, secret)
verify_linear_signature(payload, signature, secret) ==
    IF ~Set(secret)
    THEN TRUE
    ELSE signature.v = Hmac(secret.v, payload)

\* lines 42-44: whether the request is turned away with 401
rejects(body, signature, webhook_secret) ==
    IF Set(webhook_secret) /\ Set(signature)
    THEN ~verify_linear_signature(body, signature, webhook_secret)
    ELSE FALSE

\* lines 90-95: the reply after requests.post returned
dispatch_reply_2xx(remote) ==
    IF remote.status_code \in 200..299
    THEN [status |-> 200, outcome |-> "success"]
    ELSE [status |-> 500, outcome |-> "failure"]

dispatch_reply(remote) ==
    IF remote.status_code = 204
    THEN [status |-> 200, outcome |-> "success"]
    ELSE [status |-> 500, outcome |-> "failure"]

\* linear_webhook(): the reply, the dispatch requests sent, and whether an
\* exception left the handler
linear_webhook(webhook_secret, signature, body, remote) ==
    IF rejects(body, signature, webhook_secret)
    THEN [status |-> 401, outcome |-> "rejected", sent |-> 0, raised |-> FALSE]
    ELSE IF body.type # "Issue" \/ body.action # "update"
    THEN [status |-> 200, outcome |-> "ignored", sent |-> 0, raised |-> FALSE]
    ELSE IF TARGET_LABEL \notin body.labels
    THEN [status |-> 200, outcome |-> "ignored", sent |-> 0, raised |-> FALSE]
    ELSE IF remote.raised
    THEN [status |-> 0, outcome |-> "exception", sent |-> 1, raised |-> TRUE]
    ELSE [status |-> dispatch_reply(remote).status,
          outcome |-> dispatch_reply(remote).outcome,
          sent |-> 1, raised |-> FALSE]

\* trigger_workflow(): status is the exit status of the process
trigger_workflow(token, remote) ==
    IF ~Set(token)
    THEN [status |-> 1, outcome |-> "no token", sent |-> 0, raised |-> FALSE]
    ELSE IF remote.raised
    THEN [status |-> 1, outcome |-> "exception", sent |-> 1, raised |-> TRUE]
    ELSE IF remote.status_code = 204
    THEN [status |-> 0, outcome |-> "success", sent |-> 1, raised |-> FALSE]
    ELSE [status |-> 1, outcome |-> "failure", sent |-> 1, raised |-> FALSE]

NoRemote == [raised |-> FALSE, status_code |-> 0]
NoBody == [id |-> 0, type |-> "", action |-> "", labels |-> {}]
NoHook == [who |-> "none", signature |-> None, body |-> NoBody, remote |-> NoRemote,
           status |-> 0, outcome |-> "none", sent |-> 0, raised |-> FALSE]

LinearWebhook ==
    /\ \E signature \in Signatures, body \in Bodies, remote \in Remotes :
          LET r == linear_webhook(env.LINEAR_WEBHOOK_SECRET, signature, body, remote)
          IN hook' = [who |-> "webhook", signature |-> signature, body |-> body,
                      remote |-> IF r.sent > 0 THEN remote ELSE NoRemote,
                      status |-> r.status, outcome |-> r.outcome,
                      sent |-> r.sent, raised |-> r.raised]
    /\ UNCHANGED << today, time, record, notes, saves, qop, loopVars, parseVars, env >>

TriggerWorkflow ==
    /\ \E remote \in Remotes :
          LET r == trigger_workflow(env.GITHUB_TOKEN, remote)
          IN hook' = [who |-> "cli", signature |-> None, body |-> NoBody,
                      remote |-> IF r.sent > 0 THEN remote ELSE NoRemote,
                      status |-> r.status, outcome |-> r.outcome,
                      sent |-> r.sent, raised |-> r.raised]
    /\ UNCHANGED << today, time, record, notes, saves, qop, loopVars, parseVars, env >>

InitHook ==
    /\ today = 0
    /\ time = 0
    /\ record = Absent
    /\ notes = [d \in Days |-> NoNote]
    /\ saves = [d \in Days |-> << >>]
    /\ qop = NoOp
    /\ QuietLoop
    /\ QuietParse
    /\ env \in [LINEAR_WEBHOOK_SECRET : Secrets, GITHUB_TOKEN : Tokens]
    /\ hook = NoHook

NextHook == LinearWebhook \/ TriggerWorkflow

SpecHook == InitHook /\ [][NextHook]_vars

(***************************************************************************)
(* Claims about the webhook handler and the dispatch trigger.              *)
(***************************************************************************)
Signed(h, secret) == h.signature = Some(Hmac(secret.v, h.body))

\* C6 (as stated): with a webhook secret configured, the handler sends a
\* dispatch only for requests whose signature header is the HMAC-SHA256
\* digest of the body under that secret, and answers every other request
\* 401 with no dispatch.
C6_OnlySignedRequestsDispatch ==
    (hook.who = "webhook" /\ Set(env.LINEAR_WEBHOOK_SECRET)) =>
        /\ hook.sent > 0 => Signed(hook, env.LINEAR_WEBHOOK_SECRET)
        /\ ~Signed(hook, env.LINEAR_WEBHOOK_SECRET) =>
              hook.status = 401 /\ hook.sent = 0

\* What the code does: the claim holds of the requests that carry a
\* non-empty signature header, and a request without one is never turned
\* away.
SignatureObserved ==
    hook.who = "webhook" =>
        /\ (Set(env.LINEAR_WEBHOOK_SECRET) /\ Set(hook.signature)) =>
              /\ hook.sent > 0 => Signed(hook, env.LINEAR_WEBHOOK_SECRET)
              /\ ~Signed(hook, env.LINEAR_WEBHOOK_SECRET) =>
                    hook.status = 401 /\ hook.sent = 0
        /\ ~Set(hook.signature) => hook.status # 401

\* C7: whenever the remote answers the dispatch request with a status, one
\* request was sent and no more, no exception was raised, and the trigger
\* reports success if the status is 204 and failure (the handler's 500
\* reply, the CLI's exit status 1) for every other status.
C7_SuccessIffStatus204 ==
    (hook.who \in {"webhook", "cli"} /\ hook.remote.status_code # 0) =>
        /\ hook.sent = 1
        /\ ~hook.raised
        /\ hook.outcome = IF hook.remote.status_code = 204 THEN "success" ELSE "failure"
        /\ hook.who = "webhook" =>
              hook.status = IF hook.remote.status_code = 204 THEN 200 ELSE 500
        /\ hook.who = "cli" =>
              hook.status = IF hook.remote.status_code = 204 THEN 0 ELSE 1

C7_Witness ==
    /\ hook.who = "webhook"
    /\ hook.remote.status_code = 200
    /\ hook.outcome = "failure"
    /\ hook.status = 500
    /\ hook.sent = 1

====
